---- MODULE Spec2Model ----
(***************************************************************************)
(* Model of scripts/psr/custom_parser/monorepo_parser.py: the options      *)
(* dataclass ConventionalMonorepoParserOptions and the commit parser       *)
(* ConventionalCommitMonorepoParser.                                       *)
(*                                                                         *)
(* A Python str is a sequence of one-character strings, so that regular    *)
(* expression matching, globbing, splitting and stripping are computed on  *)
(* the characters as the code computes them.                               *)
(***************************************************************************)
EXTENDS Integers, Sequences, FiniteSets, TLC

VARIABLES
    options,                 \* the ConventionalMonorepoParserOptions fields
    tag_to_level,            \* options._tag_to_level, an insertion-ordered dict
    file_selection_filters,  \* parser.file_selection_filters
    file_ignore_filters,     \* parser.file_ignore_filters
    phase,                   \* "options" -> "post_init" -> "ready" -> "parsed"
    commit,                  \* the commit that parse is called with
    relevant_changed_files,  \* parse's local of that name, at its return
    pmsg_result,             \* parse's local of that name, at its return
    result,                  \* what the last parse call returned
    returned                 \* the parse calls so far: the commit and the result

vars == <<options, tag_to_level, file_selection_filters, file_ignore_filters,
          phase, commit, relevant_changed_files, pmsg_result, result, returned>>

\* None where a str is expected: a sequence that is no string of characters
None == <<"None">>

----------------------------------------------------------------------------
(* Bounds of the model.                                                    *)

\* longest tuple given to each of minor_tags, patch_tags, other_allowed_tags
MaxTags == 2
\* most changed files in one commit
MaxFiles == 2
\* most entries of path_filters
MaxFilters == 2
\* the number of parse calls on one parser
MaxCalls == 3

----------------------------------------------------------------------------
(* Python str and list helpers.                                            *)

Range(s) == {s[i] : i \in 1..Len(s)}

\* s[i:j] with 1-based inclusive ends; empty when j < i
Slice(s, i, j) == IF j < i THEN <<>> ELSE SubSeq(s, i, j)

Reverse(s) == [i \in 1..Len(s) |-> s[Len(s) + 1 - i]]

Max(S) == CHOOSE x \in S : \A y \in S : y <= x
Min(S) == CHOOSE x \in S : \A y \in S : x <= y

\* s.startswith(p), tested at offset i (the char after position i)
MatchesAt(s, i, p) ==
    /\ i + Len(p) <= Len(s)
    /\ \A k \in 1..Len(p) : s[i + k] = p[k]

StartsWith(s, p) == MatchesAt(s, 0, p)
EndsWith(s, p) == Len(p) <= Len(s) /\ MatchesAt(s, Len(s) - Len(p), p)

\* p in s
Contains(s, p) == \E i \in 0..Len(s) : MatchesAt(s, i, p)

\* All sequences over S of length at most n
SeqsUpTo(S, n) == UNION {[1..k -> S] : k \in 0..n}

----------------------------------------------------------------------------
(* LevelBump.                                                              *)

NO_RELEASE == "NO_RELEASE"
PATCH == "PATCH"
MINOR == "MINOR"
MAJOR == "MAJOR"
LevelBump == {NO_RELEASE, PATCH, MINOR, MAJOR}

----------------------------------------------------------------------------
(* ConventionalMonorepoParserOptions.__post_init__ and its properties.     *)
(* A dict is a sequence of <<key, value>> pairs in insertion order.        *)

Keys(d) == [i \in 1..Len(d) |-> d[i][1]]

HasKey(d, k) == \E i \in 1..Len(d) : d[i][1] = k

\* d.get(k, default)
DictGet(d, k, default) ==
    IF HasKey(d, k)
    THEN d[CHOOSE i \in 1..Len(d) : d[i][1] = k][2]
    ELSE default

\* a mutated dict store: the first value stored under a key is kept
DictSetKeepFirst(d, k, v) ==
    IF HasKey(d, k) THEN d ELSE Append(d, <<k, v>>)

\* d[k] = v: a new key goes last, an existing key keeps its place and takes v
DictSet(d, k, v) ==
    IF HasKey(d, k)
    THEN [i \in 1..Len(d) |-> IF d[i][1] = k THEN <<k, v>> ELSE d[i]]
    ELSE Append(d, <<k, v>>)

\* zip_longest(tags, (), fillvalue=level)
ZipFill(tags, level) == [i \in 1..Len(tags) |-> <<tags[i], level>>]

\* the list the dict comprehension iterates over
TagLevelPairs(o) ==
    ZipFill(o.other_allowed_tags, o.default_bump_level)
        \o ZipFill(o.patch_tags, PATCH)
        \o ZipFill(o.minor_tags, MINOR)

RECURSIVE DictFromPairs(_, _)
\* {str(tag): level for tag, level in pairs if "|" not in str(tag)}, added to d
DictFromPairs(d, pairs) ==
    IF pairs = <<>> THEN d
    ELSE LET tag == Head(pairs)[1]
             level == Head(pairs)[2]
         IN  DictFromPairs(IF "|" \notin Range(tag) THEN DictSet(d, tag, level) ELSE d,
                           Tail(pairs))

\* the value __post_init__ gives self._tag_to_level
PostInitTagToLevel(o) == DictFromPairs(<<>>, TagLevelPairs(o))

\* the allowed_tags property
allowed_tags(d) == Reverse(Keys(d))

----------------------------------------------------------------------------
(* ConventionalCommitMonorepoParser.__init__: the path filter lists.       *)
(* options.path_filters holds the strings str(path) gives for the paths    *)
(* the resolve_path validator produced: absolute, "!" kept in front.       *)

SEP == "/"

RECURSIVE RStripSep(_)
\* s.rstrip(os.sep)
RStripSep(s) ==
    IF s # <<>> /\ s[Len(s)] = SEP THEN RStripSep(Slice(s, 1, Len(s) - 1)) ELSE s

\* str_path[1:] if str_path.startswith("!") else str_path
StrFilter(str_path) ==
    IF StartsWith(str_path, <<"!">>) THEN Tail(str_path) ELSE str_path

\* a mutated expansion: the "!" marker is left in front of the patterns
ExpandKeepMarker(str_path) ==
    (IF EndsWith(str_path, <<"*">>) THEN <<>>
     ELSE <<RStripSep(str_path) \o <<SEP, "*", "*">>>>)
    \o (IF EndsWith(str_path, <<SEP>>) THEN <<>> ELSE <<str_path>>)

\* the patterns one path filter adds to its list, in the order added; the
\* list comprehension's None entries and an empty str_filter are what
\* filter(None, ...) drops
Expand(str_path) ==
    (IF EndsWith(str_path, <<"*">>) THEN <<>>
     ELSE <<RStripSep(StrFilter(str_path)) \o <<SEP, "*", "*">>>>)
    \o (IF EndsWith(str_path, <<SEP>>) \/ StrFilter(str_path) = <<>> THEN <<>>
        ELSE <<StrFilter(str_path)>>)

RECURSIVE ExtendAll(_, _)
\* what the loop over path_filters adds to one of the two lists: the ignore
\* list takes the filters that start with "!", the selection list the others
ExtendAll(path_filters, negated) ==
    IF path_filters = <<>> THEN <<>>
    ELSE (IF StartsWith(Head(path_filters), <<"!">>) = negated
          THEN Expand(Head(path_filters)) ELSE <<>>)
             \o ExtendAll(Tail(path_filters), negated)

InitSelectionFilters(path_filters) == ExtendAll(path_filters, FALSE)

InitIgnoreFilters(path_filters) == ExtendAll(path_filters, TRUE)

----------------------------------------------------------------------------
(* fnmatch.fnmatch on POSIX: "*" matches any run of characters ("/" too),  *)
(* "?" one character, anything else itself; the whole name must match.     *)
(* Bracket classes are not modelled: no pattern of the model holds "[".    *)

RECURSIVE GlobFrom(_, _, _, _)
GlobFrom(name, i, pat, j) ==
    IF j > Len(pat) THEN i > Len(name)
    ELSE IF pat[j] = "*"
         THEN GlobFrom(name, i, pat, j + 1)
                  \/ (i <= Len(name) /\ GlobFrom(name, i + 1, pat, j))
         ELSE /\ i <= Len(name)
              /\ (pat[j] = "?" \/ pat[j] = name[i])
              /\ GlobFrom(name, i + 1, pat, j + 1)

fnmatch(name, pat) == GlobFrom(name, 1, pat, 1)

----------------------------------------------------------------------------
(* parse: the changed files that the path filters select.                  *)

\* commit.repo.working_tree_dir, resolved
git_root == <<"/", "r">>

\* str(git_root / rel_git_path)
FullPath(rel_git_path) == git_root \o <<SEP>> \o rel_git_path

\* the inner loop over file_ignore_filters: TRUE when one of them matches
Ignored(full_path, ign) == \E k \in 1..Len(ign) : fnmatch(full_path, ign[k])

RECURSIVE AppendsNoBreak(_, _, _, _)
\* a mutated loop: no break after the append
AppendsNoBreak(rel_git_path, sel, ign, k) ==
    IF k > Len(sel) THEN <<>>
    ELSE IF fnmatch(FullPath(rel_git_path), sel[k])
              /\ ~Ignored(FullPath(rel_git_path), ign)
         THEN <<rel_git_path>> \o AppendsNoBreak(rel_git_path, sel, ign, k + 1)
         ELSE AppendsNoBreak(rel_git_path, sel, ign, k + 1)

RECURSIVE Appends(_, _, _, _)
\* the loop over file_selection_filters from the k-th on, for one changed
\* file: what it appends to relevant_changed_files
Appends(rel_git_path, sel, ign, k) ==
    IF k > Len(sel) THEN <<>>
    ELSE IF fnmatch(FullPath(rel_git_path), sel[k])
         THEN IF ~Ignored(FullPath(rel_git_path), ign)
              THEN <<rel_git_path>>                               \* append, break
              ELSE Appends(rel_git_path, sel, ign, k + 1)     \* next pass_filter
         ELSE Appends(rel_git_path, sel, ign, k + 1)

RECURSIVE RelevantChangedFiles(_, _, _)
\* the loop over commit.stats.files.keys()
RelevantChangedFiles(files, sel, ign) ==
    IF files = <<>> THEN <<>>
    ELSE Appends(Head(files), sel, ign, 1)
             \o RelevantChangedFiles(Tail(files), sel, ign)

----------------------------------------------------------------------------
(* Character classes of the regular expressions.                           *)

NL == "\n"

\* \s
IsSpace(c) == c \in {" ", "\t", "\n", "\r", "\f"}
\* [\t ]
IsBlank(c) == c \in {" ", "\t"}
\* \d
IsDigit(c) == c \in {"0", "1", "2", "3", "4", "5", "6", "7", "8", "9"}

\* no newline in s[i..j]
NoNL(s, i, j) == \A k \in i..j : s[k] # NL

\* str.lower on the letters, for re.IGNORECASE
Lower(c) ==
    LET up == <<"A","B","C","D","E","F","G","H","I","J","K","L","M",
                "N","O","P","Q","R","S","T","U","V","W","X","Y","Z">>
        lo == <<"a","b","c","d","e","f","g","h","i","j","k","l","m",
                "n","o","p","q","r","s","t","u","v","w","x","y","z">>
    IN  IF \E k \in 1..26 : up[k] = c
        THEN lo[CHOOSE k \in 1..26 : up[k] = c]
        ELSE c

RECURSIVE LStrip(_)
LStrip(s) == IF s # <<>> /\ IsSpace(Head(s)) THEN LStrip(Tail(s)) ELSE s

RECURSIVE RStrip(_)
RStrip(s) ==
    IF s # <<>> /\ IsSpace(s[Len(s)]) THEN RStrip(Slice(s, 1, Len(s) - 1)) ELSE s

\* s.strip()
Strip(s) == LStrip(RStrip(s))

----------------------------------------------------------------------------
(* self.re_parser.match(message), with re.DOTALL: the pattern              *)
(*   ^(?P<type>t1|t2|...)(?:\(PREFIX(?P<scope>[^\n]+)\))?(?P<break>!)?     *)
(*   :\s+(?P<subject>[^\n]+)(?:\n\n(?P<text>.+))?                          *)
(* matched as a backtracking matcher does: alternatives in order, greedy   *)
(* repeats longest first, an optional group taken when the rest can match. *)
(* Tags and scope_prefix are put in the pattern as written; those of the   *)
(* model hold no regular expression metacharacter.                         *)

NoMatch == [ok |-> FALSE]

\* ":" was matched and ends at position p: \s+, subject and the optional body
SubjectText(m, p) ==
    LET wsEnds == {e \in (p + 1)..(Len(m) - 1) :
                      (\A k \in (p + 1)..e : IsSpace(m[k])) /\ m[e + 1] # NL}
    IN  IF wsEnds = {} THEN NoMatch
        ELSE LET e == Max(wsEnds)
                 subjEnd == Max({j \in (e + 1)..Len(m) : NoNL(m, e + 1, j)})
                 hasText == MatchesAt(m, subjEnd, <<NL, NL>>) /\ subjEnd + 3 <= Len(m)
             IN  [ok |-> TRUE,
                  subject |-> Slice(m, e + 1, subjEnd),
                  text |-> IF hasText THEN Slice(m, subjEnd + 3, Len(m)) ELSE None]

\* the groups break, subject and text once the rest of the pattern matched
WithBreak(brk, rest) ==
    IF rest.ok
    THEN [ok |-> TRUE, brk |-> brk, subject |-> rest.subject, text |-> rest.text]
    ELSE NoMatch

\* the pattern from (?P<break>!)? on, after position q: a "!" there is taken,
\* since the ":" that must follow cannot stand in its place
BreakColon(m, q) ==
    LET brk == MatchesAt(m, q, <<"!">>)
        c == IF brk THEN q + 1 ELSE q
    IN  IF MatchesAt(m, c, <<":">>)
        THEN WithBreak(IF brk THEN <<"!">> ELSE None, SubjectText(m, c + 1))
        ELSE NoMatch

\* the group scope added to the groups of the rest
WithScope(scope, tail) ==
    IF tail.ok
    THEN [ok |-> TRUE, scope |-> scope, brk |-> tail.brk,
          subject |-> tail.subject, text |-> tail.text]
    ELSE NoMatch

\* the positions at which a scope that starts at s0 can end: the rest matches
ScopeEnds(m, p, prefix, s0) ==
    IF MatchesAt(m, p, <<"(">> \o prefix)
    THEN {e \in s0..(Len(m) - 1) :
             NoNL(m, s0, e) /\ m[e + 1] = ")" /\ BreakColon(m, e + 1).ok}
    ELSE {}

\* the scope group is taken with the longest scope, or skipped
ScopeChoice(m, p, s0, ends) ==
    WithScope(IF ends # {} THEN Slice(m, s0, Max(ends)) ELSE None,
              BreakColon(m, IF ends # {} THEN Max(ends) + 1 ELSE p))

\* the pattern from the optional scope group on, after position p
ScopeRest(m, p, prefix) ==
    ScopeChoice(m, p, p + Len(prefix) + 2,
                ScopeEnds(m, p, prefix, p + Len(prefix) + 2))

\* str.join("|", allowed_tags) as a list of alternatives: no tag at all leaves
\* the one empty alternative
Alternatives(tags) == IF tags = <<>> THEN << <<>> >> ELSE tags

\* the group type added to the groups of the rest
WithType(type, sr) ==
    [ok |-> TRUE, type |-> type, scope |-> sr.scope, brk |-> sr.brk,
     subject |-> sr.subject, text |-> sr.text]

\* the first alternative with which the whole pattern matches
FirstHit(m, alts, prefix, hits) ==
    IF hits = {} THEN NoMatch
    ELSE WithType(alts[Min(hits)], ScopeRest(m, Len(alts[Min(hits)]), prefix))

\* the groups of the match, or NoMatch
ReParserMatch(m, tags, prefix) ==
    FirstHit(m, Alternatives(tags), prefix,
             {k \in 1..Len(Alternatives(tags)) :
                 /\ MatchesAt(m, 0, Alternatives(tags)[k])
                 /\ ScopeRest(m, Len(Alternatives(tags)[k]), prefix).ok})

----------------------------------------------------------------------------
(* self.mr_selector: [\t ]+\((?:pull request )?(?P<mr_number>[#!]\d+)\)[\t ]*$ *)

PullRequest == <<"p","u","l","l"," ","r","e","q","u","e","s","t"," ">>

\* the first position of the longest run of characters satisfying Is that
\* ends at position j, or j + 1 when s[j] does not satisfy it
RunStart(s, j, Is(_)) ==
    Min({i \in 1..(j + 1) : \A k \in i..j : Is(s[k])})

\* the last position of the longest run of characters satisfying Is that
\* starts at position i, or i - 1 when s[i] does not satisfy it
RunEnd(s, i, Is(_)) ==
    Max({j \in (i - 1)..Len(s) : \A k \in i..j : Is(s[k])})

\* The pattern ends with $, so a match ends with the last ")" of s and only
\* blanks after it; before it the digits, the "#" or "!", the optional
\* "pull request ", the "(" and blanks.  close, digit, mark and open are the
\* positions of ")", the first digit, the marker and "(".
MrShape(s, close, digit, mark, open) ==
    /\ close >= 1 /\ s[close] = ")"
    /\ digit < close
    /\ mark >= 1 /\ s[mark] \in {"#", "!"}
    /\ open >= 2 /\ s[open] = "("
    /\ (open = mark - 1
            \/ (open = mark - 1 - Len(PullRequest) /\ MatchesAt(s, open, PullRequest)))
    /\ IsBlank(s[open - 1])

\* the position of "(" when the marker is at mark
MrOpen(s, mark) ==
    IF mark >= 2 /\ s[mark - 1] = "(" THEN mark - 1 ELSE mark - 1 - Len(PullRequest)

\* mr_selector.search(s) from the positions a match must have: the leftmost
\* match starts with the first blank of the run before "(", and removed is
\* mr_selector.sub("", s).strip(), what stands before the match, stripped
MrFrom(s, close, digit, open) ==
    IF MrShape(s, close, digit, digit - 1, open)
    THEN [ok |-> TRUE, mr_number |-> Slice(s, digit - 1, close - 1),
          removed |-> Strip(Slice(s, 1, RunStart(s, open - 1, IsBlank) - 1))]
    ELSE NoMatch

MrDigits(s, close) ==
    MrFrom(s, close, RunStart(s, close - 1, IsDigit),
           MrOpen(s, RunStart(s, close - 1, IsDigit) - 1))

\* mr_selector.search(s), or NoMatch
MrSearch(s) == MrDigits(s, RunStart(s, Len(s), IsBlank) - 1)

----------------------------------------------------------------------------
(* semantic_release.commit_parser.util: breaking_re and parse_paragraphs.  *)

Breaking == <<"B","R","E","A","K","I","N","G">>
ChangeColon == <<"C","H","A","N","G","E",":">>

\* breaking_re.match(text), the pattern BREAKING[ -]CHANGE:\s?(.*) tried at
\* the start of text; desc is group(1)
BreakingMatch(text) ==
    IF /\ StartsWith(text, Breaking)
       /\ Len(text) > Len(Breaking) /\ text[Len(Breaking) + 1] \in {" ", "-"}
       /\ MatchesAt(text, Len(Breaking) + 1, ChangeColon)
    THEN LET q == Len(Breaking) + 1 + Len(ChangeColon)
             from == IF q + 1 <= Len(text) /\ IsSpace(text[q + 1]) THEN q + 2 ELSE q + 1
             ends == {j \in (from - 1)..Len(text) : NoNL(text, from, j)}
         IN  [ok |-> TRUE, desc |-> Slice(text, from, Max(ends))]
    ELSE NoMatch

RECURSIVE SplitBlankLines(_)
\* text.split("\n\n")
SplitBlankLines(text) ==
    LET cuts == {i \in 0..Len(text) : MatchesAt(text, i, <<NL, NL>>)}
    IN  IF cuts = {} THEN <<text>>
        ELSE <<Slice(text, 1, Min(cuts))>>
                 \o SplitBlankLines(Slice(text, Min(cuts) + 3, Len(text)))

\* paragraph.replace("\n", " ")
Unwrap(par) == [i \in 1..Len(par) |-> IF par[i] = NL THEN " " ELSE par[i]]

\* parse_paragraphs(text): the blank-line-delimited paragraphs, each with its
\* line breaks made spaces and stripped, the empty ones dropped
parse_paragraphs(text) ==
    LET pars == SplitBlankLines(text)
        cleaned == [i \in 1..Len(pars) |-> Strip(Unwrap(pars[i]))]
    IN  SelectSeq(cleaned, LAMBDA par : par # <<>>)

----------------------------------------------------------------------------
(* self.issue_selector, with re.MULTILINE | re.IGNORECASE.                 *)

IssueKeywords ==
    {<<"c","l","o","s","e">>, <<"c","l","o","s","e","s">>,
     <<"c","l","o","s","e","d">>, <<"c","l","o","s","i","n","g">>,
     <<"f","i","x">>, <<"f","i","x","e","s">>, <<"f","i","x","e","d">>,
     <<"f","i","x","i","n","g">>,
     <<"r","e","s","o","l","v","e">>, <<"r","e","s","o","l","v","e","s">>,
     <<"r","e","s","o","l","v","e","d">>, <<"r","e","s","o","l","v","i","n","g">>,
     <<"i","m","p","l","e","m","e","n","t">>,
     <<"i","m","p","l","e","m","e","n","t","s">>,
     <<"i","m","p","l","e","m","e","n","t","e","d">>,
     <<"i","m","p","l","e","m","e","n","t","i","n","g">>}

\* the offsets at which ^ matches
LineStarts(text) == {0} \cup {i \in 1..Len(text) : text[i] = NL}

\* the keywords that stand after offset i, in any case, with a ":" after them
KeywordsAt(text, i) ==
    {w \in IssueKeywords :
        /\ i + Len(w) + 1 <= Len(text)
        /\ \A k \in 1..Len(w) : Lower(text[i + k]) = w[k]
        /\ text[i + Len(w) + 1] = ":"}

NotNL(c) == c # NL

\* [\t ]+ after the ":" at position c takes the blanks that leave .+ a
\* character of the line, which ends at lineEnd; .+ takes the rest of the line
BlanksThenRest(text, c, lineEnd, blankEnd) ==
    IF blankEnd >= c + 1 /\ lineEnd >= c + 2
    THEN {Slice(text, (IF blankEnd = lineEnd THEN lineEnd - 1 ELSE blankEnd) + 1, lineEnd)}
    ELSE {}

\* the issue_predicate groups of the matches that start after offset i, a set
\* of at most one string
PredicatesAt(text, i) ==
    UNION {BlanksThenRest(text, i + Len(w) + 1,
                          RunEnd(text, i + Len(w) + 2, NotNL),
                          RunEnd(text, i + Len(w) + 2, IsBlank)) :
           w \in KeywordsAt(text, i)}

\* the match at the leftmost line start that has one
LeftmostIssue(text, hits) ==
    IF hits = {} THEN NoMatch
    ELSE [ok |-> TRUE,
          issue_predicate |-> CHOOSE pr \in PredicatesAt(text, Min(hits)) : TRUE]

\* issue_selector.search(text), or NoMatch
IssueSearch(text) ==
    LeftmostIssue(text, {i \in LineStarts(text) : PredicatesAt(text, i) # {}})

\* a character the substitution of ",? and | *[,;/& ] *" by "," turns into a
\* separator of predicate.split(",")
IsIssueSep(c) == c \in {",", ";", "/", "&", " "}

\* new_issue_refs: the pieces of the predicate that hold a digit.  A piece is
\* a longest run free of separators; the word "and" that the first
\* alternative swallows is a piece without a digit either way.
NewIssueRefs(predicate) ==
    {Slice(predicate, i, j) : <<i, j>> \in {ij \in (1..Len(predicate)) \X (1..Len(predicate)) :
        /\ ij[1] <= ij[2]
        /\ \A k \in ij[1]..ij[2] : ~IsIssueSep(predicate[k])
        /\ (ij[1] = 1 \/ IsIssueSep(predicate[ij[1] - 1]))
        /\ (ij[2] = Len(predicate) \/ IsIssueSep(predicate[ij[2] + 1]))
        /\ \E k \in ij[1]..ij[2] : IsDigit(predicate[k])}}

----------------------------------------------------------------------------
(* commit_body_components_separator and parse_message.                     *)
(* linked_issues is kept as the set that sort_numerically puts in order.   *)

EmptyAccumulator ==
    [breaking_descriptions |-> <<>>, descriptions |-> <<>>, linked_issues |-> {}]

\* a mutated classification: no check for a description already recorded
ClassifyNoDedup(accumulator, text, brk_match, issue_match) ==
    IF brk_match.ok
    THEN [accumulator EXCEPT !.breaking_descriptions = Append(@, brk_match.desc)]
    ELSE IF issue_match.ok
    THEN [accumulator EXCEPT
             !.linked_issues = @ \cup NewIssueRefs(issue_match.issue_predicate)]
    ELSE [accumulator EXCEPT !.descriptions = Append(@, text)]

\* the three branches of commit_body_components_separator, given the results
\* of its two pattern matches on text
Classify(accumulator, text, brk_match, issue_match) ==
    IF brk_match.ok
    THEN [accumulator EXCEPT !.breaking_descriptions = Append(@, brk_match.desc)]
    ELSE IF issue_match.ok
    THEN [accumulator EXCEPT
             !.linked_issues = @ \cup NewIssueRefs(issue_match.issue_predicate)]
    ELSE IF text \notin Range(accumulator.descriptions)
    THEN [accumulator EXCEPT !.descriptions = Append(@, text)]
    ELSE accumulator

commit_body_components_separator(accumulator, text) ==
    Classify(accumulator, text, BreakingMatch(text), IssueSearch(text))

RECURSIVE Reduce(_, _)
\* functools.reduce(self.commit_body_components_separator, texts, accumulator)
Reduce(texts, accumulator) ==
    IF texts = <<>> THEN accumulator
    ELSE Reduce(Tail(texts), commit_body_components_separator(accumulator, Head(texts)))

\* LONG_TYPE_NAMES.get(parsed_type, parsed_type), for the tags of the model
Category(parsed_type) ==
    IF parsed_type = <<"f","e","a","t">> THEN <<"f","e","a","t","u","r","e","s">>
    ELSE IF parsed_type = <<"f","i","x">> THEN <<"b","u","g"," ","f","i","x","e","s">>
    ELSE IF parsed_type = <<"c","i">>
         THEN <<"c","o","n","t","i","n","u","o","u","s"," ",
                "i","n","t","e","g","r","a","t","i","o","n">>
    ELSE parsed_type

\* a mutated level: the "!" marker is not looked at
LevelBumpNoMarker(breaking_descriptions, parsed_break, parsed_type, d, default) ==
    IF breaking_descriptions # <<>> THEN MAJOR ELSE DictGet(d, parsed_type, default)

\* a mutated level: the breaking-change paragraphs are not looked at
LevelBumpNoParagraphs(breaking_descriptions, parsed_break, parsed_type, d, default) ==
    IF parsed_break # None THEN MAJOR ELSE DictGet(d, parsed_type, default)

\* level_bump
LevelBumpOf(breaking_descriptions, parsed_break, parsed_type, d, default) ==
    IF breaking_descriptions # <<>> \/ parsed_break # None
    THEN MAJOR
    ELSE DictGet(d, parsed_type, default)

NoResult == [kind |-> "None"]

\* the ParsedMessageResult that parse_message builds from its locals
MessageResult(parsed, mr_match, body_components, o, d) ==
    [kind |-> "ParsedMessageResult",
     bump |-> LevelBumpOf(body_components.breaking_descriptions,
                          parsed.brk, parsed.type, d, o.default_bump_level),
     type |-> parsed.type,
     category |-> Category(parsed.type),
     scope |-> parsed.scope,
     descriptions |-> body_components.descriptions,
     breaking_descriptions |-> body_components.breaking_descriptions,
     linked_issues |-> body_components.linked_issues,
     linked_merge_request |-> IF mr_match.ok THEN mr_match.mr_number ELSE <<>>]

\* parse_message from the reduce on: the subject, without its merge request
\* reference, goes before the paragraphs of the body
ReduceBody(parsed, mr_match, o, d) ==
    MessageResult(parsed, mr_match,
                  Reduce(<<IF mr_match.ok THEN mr_match.removed ELSE parsed.subject>>
                             \o parse_paragraphs(IF parsed.text = None THEN <<>>
                                                 ELSE parsed.text),
                         EmptyAccumulator),
                  o, d)

\* parse_message once re_parser.match(message) gave parsed
ParseMatched(parsed, o, d) ==
    IF ~parsed.ok THEN NoResult
    ELSE ReduceBody(parsed, MrSearch(parsed.subject), o, d)

\* parse_message(message) of a parser built from options o with the mapping d
parse_message(message, o, d) ==
    ParseMatched(ReParserMatch(message, allowed_tags(d), o.scope_prefix), o, d)

----------------------------------------------------------------------------
(* parse.                                                                  *)

\* commit.message.split("\n", maxsplit=1)[0]
FirstLine(message) ==
    Slice(message, 1, Max({j \in 0..Len(message) : NoNL(message, 1, j)}))

\* the texts of the four error messages, without the values put into them
NotScopedNoFiles ==
    "is not scoped with the scope prefix ... and has no changed files in the path filter(s)"
FormatMismatch == "Format Mismatch! Unable to parse commit message"
NoChangedFiles == "has no changed files in the path filter(s)"
ScopeMismatch == "scope does not match scope prefix"

\* _logged_parse_error(commit, error)
ParseError(c, reason) == [kind |-> "ParseError", commit |-> c, error |-> reason]

\* ParsedCommit.from_parsed_message_result(commit, pmsg_result)
ParsedCommit(c, pmsg) ==
    [kind |-> "ParsedCommit", commit |-> c,
     bump |-> pmsg.bump, type |-> pmsg.type, category |-> pmsg.category,
     scope |-> pmsg.scope, descriptions |-> pmsg.descriptions,
     breaking_descriptions |-> pmsg.breaking_descriptions,
     linked_issues |-> pmsg.linked_issues,
     linked_merge_request |-> pmsg.linked_merge_request]

\* scope_prefix is set and does not occur in the first line of the message
PrefixMissing(c, o) ==
    o.scope_prefix # <<>> /\ ~Contains(FirstLine(c.message), o.scope_prefix)

\* a mutated outcome: a parsed message is accepted whatever files changed
OutcomeNoFileCheck(c, o, relevant, pmsg) ==
    IF pmsg = NoResult
    THEN ParseError(c, IF PrefixMissing(c, o)
                       THEN (IF Len(relevant) = 0 THEN NotScopedNoFiles ELSE ScopeMismatch)
                       ELSE FormatMismatch)
    ELSE ParsedCommit(c, pmsg)

\* a mutated outcome: the prefix is looked for in the whole message
OutcomeWholeMessage(c, o, relevant, pmsg) ==
    IF Len(relevant) = 0 /\ pmsg = NoResult
    THEN ParseError(c, IF o.scope_prefix # <<>> /\ ~Contains(c.message, o.scope_prefix)
                       THEN NotScopedNoFiles ELSE FormatMismatch)
    ELSE IF Len(relevant) = 0 /\ o.scope_prefix = <<>>
    THEN ParseError(c, NoChangedFiles)
    ELSE IF pmsg = NoResult
    THEN ParseError(c, IF o.scope_prefix # <<>> /\ ~Contains(c.message, o.scope_prefix)
                       THEN ScopeMismatch ELSE FormatMismatch)
    ELSE ParsedCommit(c, pmsg)

\* a mutated outcome: the result's commit lists the relevant files only
OutcomeRelevantFiles(c, o, relevant, pmsg) ==
    IF Len(relevant) = 0 /\ pmsg = NoResult
    THEN ParseError(c, IF PrefixMissing(c, o) THEN NotScopedNoFiles ELSE FormatMismatch)
    ELSE IF Len(relevant) = 0 /\ o.scope_prefix = <<>>
    THEN ParseError(c, NoChangedFiles)
    ELSE IF pmsg = NoResult
    THEN ParseError(c, IF PrefixMissing(c, o) THEN ScopeMismatch ELSE FormatMismatch)
    ELSE ParsedCommit([c EXCEPT !.files = relevant], pmsg)

\* what parse returns, from its two locals
Outcome(c, o, relevant, pmsg) ==
    IF Len(relevant) = 0 /\ pmsg = NoResult
    THEN ParseError(c, IF PrefixMissing(c, o) THEN NotScopedNoFiles ELSE FormatMismatch)
    ELSE IF Len(relevant) = 0 /\ o.scope_prefix = <<>>
    THEN ParseError(c, NoChangedFiles)
    ELSE IF pmsg = NoResult
    THEN ParseError(c, IF PrefixMissing(c, o) THEN ScopeMismatch ELSE FormatMismatch)
    ELSE ParsedCommit(c, pmsg)

----------------------------------------------------------------------------
(* The operations.                                                         *)

\* the options dataclass is built: __post_init__ derives the mapping
PostInit ==
    /\ phase = "options"
    /\ tag_to_level' = PostInitTagToLevel(options)
    /\ phase' = "post_init"
    /\ UNCHANGED <<options, file_selection_filters, file_ignore_filters,
                   commit, relevant_changed_files, pmsg_result, result, returned>>

\* ConventionalCommitMonorepoParser(options)
ParserInit ==
    /\ phase = "post_init"
    /\ file_selection_filters' = InitSelectionFilters(options.path_filters)
    /\ file_ignore_filters' = InitIgnoreFilters(options.path_filters)
    /\ phase' = "ready"
    /\ UNCHANGED <<options, tag_to_level, commit, relevant_changed_files,
                   pmsg_result, result, returned>>

\* a mutated parse: relevant_changed_files is not emptied at the start of a
\* call, the files of the calls before stay in it
ParseKeepsFiles ==
    /\ phase = "ready"
    /\ relevant_changed_files' =
           relevant_changed_files
               \o RelevantChangedFiles(commit.files, file_selection_filters,
                                       file_ignore_filters)
    /\ pmsg_result' = parse_message(commit.message, options, tag_to_level)
    /\ result' = Outcome(commit, options, relevant_changed_files', pmsg_result')
    /\ returned' = Append(returned, [commit |-> commit, result |-> result'])
    /\ phase' = "parsed"
    /\ UNCHANGED <<options, tag_to_level, file_selection_filters,
                   file_ignore_filters, commit>>

\* parser.parse(commit)
Parse ==
    /\ phase = "ready"
    /\ relevant_changed_files' =
           RelevantChangedFiles(commit.files, file_selection_filters, file_ignore_filters)
    /\ pmsg_result' = parse_message(commit.message, options, tag_to_level)
    /\ result' = Outcome(commit, options, relevant_changed_files', pmsg_result')
    /\ returned' = Append(returned, [commit |-> commit, result |-> result'])
    /\ phase' = "parsed"
    /\ UNCHANGED <<options, tag_to_level, file_selection_filters,
                   file_ignore_filters, commit>>

\* the caller hands the parser its next commit; the locals of the call
\* before are gone, the model keeps their last values
Receive(c) ==
    /\ phase = "parsed"
    /\ Len(returned) < MaxCalls
    /\ commit' = c
    /\ phase' = "ready"
    /\ UNCHANGED <<options, tag_to_level, file_selection_filters,
                   file_ignore_filters, relevant_changed_files, pmsg_result,
                   result, returned>>

----------------------------------------------------------------------------
(* The inputs: strings.                                                    *)

Feat == <<"f","e","a","t">>
Fix == <<"f","i","x">>
Ci == <<"c","i">>
Piped == <<"f","|","x">>
Unknown == <<"x","x">>

BreakingFooter == <<"B","R","E","A","K","I","N","G"," ","C","H","A","N","G","E",":"," ","x">>

ScopePrefixes == {<<>>, <<"p","-">>}

\* every concatenation of one string from each set of the list
RECURSIVE Concats(_)
Concats(sets) ==
    IF sets = <<>> THEN {<<>>}
    ELSE {h \o t : h \in Head(sets), t \in Concats(Tail(sets))}

\* messages that differ in the header: type, scope, marker, colon, subject
HeaderMessages ==
    Concats(<<{Feat, Unknown},
              {<<>>, <<"(","a",")">>, <<"(","p","-","a",")">>},
              {<<>>, <<"!">>},
              {<<":"," ">>, <<":">>},
              {<<"s">>, <<"p","-","s">>},
              {<<>>, <<NL, NL, "p","-","b">>}>>)

Subjects ==
    {<<"s">>,
     <<"s"," ","(","#","1",")">>,
     <<"f","i","x",":"," ","#","2">>,
     BreakingFooter}

Bodies ==
    {<<>>,
     <<NL, NL, "b">>,
     <<NL, NL>> \o BreakingFooter,
     <<NL, NL, "b", NL>> \o BreakingFooter,
     <<NL>> \o BreakingFooter,
     <<NL, NL, "s">>,
     <<NL, NL, "b", NL, NL, "b">>,
     <<NL, NL, "C","l","o","s","e","s",":"," ","#","1",","," ","#","7">>}

\* messages that differ in the subject and the body
BodyMessages ==
    Concats(<<{Feat, Fix, Ci}, {<<>>, <<"!">>}, {<<":"," ">>}, Subjects, Bodies>>)

Messages == HeaderMessages \cup BodyMessages

\* what str(path) gives for resolved path filters
P_r == <<"/","r">>
P_ra == <<"/","r","/","a">>
P_ra_star == <<"/","r","/","a","/","*">>
P_not_ra == <<"!","/","r","/","a">>
P_not_rab == <<"!","/","r","/","a","/","b">>
P_root == <<"/">>
P_not_root == <<"!">>

FilterStrings == {P_r, P_ra, P_ra_star, P_not_ra, P_not_rab, P_root, P_not_root}

\* repository-relative paths of changed files
F_a == <<"a">>
F_ab == <<"a","/","b">>
F_abc == <<"a","/","b","/","c">>
F_d == <<"d">>

Files == {F_a, F_ab, F_abc, F_d}

\* the key lists of commit.stats.files: no path twice
FileLists(n) ==
    {fs \in SeqsUpTo(Files, n) : \A i, j \in 1..Len(fs) : i # j => fs[i] # fs[j]}

Hexsha == "0123456789abcdef"

Commits(messages, filelists) ==
    [hexsha : {Hexsha}, message : messages, files : filelists]

OptionsSet(tagsets, defaults, filters, prefixes) ==
    [minor_tags : tagsets, patch_tags : tagsets, other_allowed_tags : tagsets,
     default_bump_level : defaults, path_filters : filters, scope_prefix : prefixes]

\* the state in which an options object holding o is about to be built and
\* a commit c waits to be parsed
InitWith(o, c) ==
    /\ options = o
    /\ commit = c
    /\ phase = "options"
    /\ tag_to_level = <<>>
    /\ file_selection_filters = <<>>
    /\ file_ignore_filters = <<>>
    /\ relevant_changed_files = <<>>
    /\ pmsg_result = NoResult
    /\ result = NoResult
    /\ returned = <<>>

----------------------------------------------------------------------------
(* Spec: one commit is parsed by a parser; the messages vary widely, the   *)
(* tags, path filters and changed files over a few configurations.         *)

TagConfigs ==
    {[minor_tags |-> <<Feat>>, patch_tags |-> <<Fix>>, other_allowed_tags |-> <<Ci>>],
     [minor_tags |-> <<Fix>>, patch_tags |-> <<Fix, Feat>>, other_allowed_tags |-> <<Feat>>]}

FilterConfigs == {<<P_ra>>, <<P_ra, P_not_rab>>, <<P_not_rab, P_r>>}

FileConfigs == {<<>>, <<F_a>>, <<F_ab>>, <<F_d>>, <<F_d, F_abc>>, <<F_d, F_a>>}

InitOver(tagconfigs, messages) ==
    \E t \in tagconfigs, l \in {NO_RELEASE, MINOR}, f \in FilterConfigs,
       sp \in ScopePrefixes, c \in Commits(messages, FileConfigs) :
        InitWith([minor_tags |-> t.minor_tags, patch_tags |-> t.patch_tags,
                  other_allowed_tags |-> t.other_allowed_tags,
                  default_bump_level |-> l, path_filters |-> f, scope_prefix |-> sp],
                 c)

Init == InitOver(TagConfigs, Messages)

Next == PostInit \/ ParserInit \/ Parse

Spec == Init /\ [][Next]_vars

----------------------------------------------------------------------------
(* SpecTypes: as Spec, and also the parsers whose options leave the mapping *)
(* empty (every tag holds "|", or there is none), so that the type pattern  *)
(* is empty and matches the empty type.                                     *)

NoTagConfigs ==
    {[minor_tags |-> <<Piped>>, patch_tags |-> <<Piped>>, other_allowed_tags |-> <<>>],
     [minor_tags |-> <<>>, patch_tags |-> <<>>, other_allowed_tags |-> <<>>]}

\* messages without a type
UntypedMessages ==
    Concats(<<{<<>>, <<"(","p","-","a",")">>}, {<<>>, <<"!">>}, {<<":"," ">>},
              {<<"s">>}, {<<>>, <<NL, NL>> \o BreakingFooter}>>)

InitTypes ==
    \/ InitOver(TagConfigs, Messages)
    \/ InitOver(NoTagConfigs, UntypedMessages \cup BodyMessages)

NextTypes == PostInit \/ ParserInit \/ Parse

SpecTypes == InitTypes /\ [][NextTypes]_vars

----------------------------------------------------------------------------
(* SpecOptions: the options object alone, over every choice of the three   *)
(* tag tuples and of the default level.                                    *)

Tags == {Feat, Fix, Piped}

InitOptions ==
    \E o \in OptionsSet(SeqsUpTo(Tags, MaxTags), {NO_RELEASE, PATCH, MINOR},
                        {<<P_r>>}, {<<>>}) :
        InitWith(o, [hexsha |-> Hexsha, message |-> Feat \o <<":"," ","s">>,
                     files |-> <<>>])

NextOptions == PostInit

SpecOptions == InitOptions /\ [][NextOptions]_vars

----------------------------------------------------------------------------
(* SpecFiles: one commit is parsed by a parser; the path filters and the   *)
(* changed files vary widely.                                              *)

InitFiles ==
    \E f \in SeqsUpTo(FilterStrings, MaxFilters), sp \in ScopePrefixes,
       c \in Commits({Feat \o <<":"," ","s">>, Unknown \o <<":"," ","s">>},
                     FileLists(MaxFiles)) :
        InitWith([minor_tags |-> <<Feat>>, patch_tags |-> <<Fix>>,
                  other_allowed_tags |-> <<Ci>>, default_bump_level |-> NO_RELEASE,
                  path_filters |-> f, scope_prefix |-> sp],
                 c)

NextFiles == PostInit \/ ParserInit \/ Parse

SpecFiles == InitFiles /\ [][NextFiles]_vars

----------------------------------------------------------------------------
(* SpecRepeat: one parser is handed up to MaxCalls commits, one after the  *)
(* other, a commit possibly more than once.                                *)

RepeatCommits ==
    Commits({Feat \o <<":"," ","s">>,
             Unknown \o <<":"," ","s">>,
             Ci \o <<":"," ","s", NL, NL, "b", NL, NL, "b">>},
            {<<>>, <<F_a>>, <<F_d, F_ab>>})

InitRepeat ==
    \E f \in FilterConfigs, sp \in ScopePrefixes, c \in RepeatCommits :
        InitWith([minor_tags |-> <<Feat>>, patch_tags |-> <<Fix>>,
                  other_allowed_tags |-> <<Ci>>, default_bump_level |-> NO_RELEASE,
                  path_filters |-> f, scope_prefix |-> sp],
                 c)

NextRepeat ==
    \/ PostInit
    \/ ParserInit
    \/ Parse
    \/ \E c \in RepeatCommits : Receive(c)

SpecRepeat == InitRepeat /\ [][NextRepeat]_vars

----------------------------------------------------------------------------
(* What the claims speak of, read off the inputs.                          *)

Parsed == phase = "parsed"
MessageParsed == Parsed /\ pmsg_result # NoResult
Succeeded == Parsed /\ result.kind = "ParsedCommit"

\* the number of entries of s equal to x
Count(s, x) == Cardinality({i \in 1..Len(s) : s[i] = x})

\* the position of the first ":" of the message, 0 when there is none
FirstColon(m) ==
    IF ":" \in Range(m) THEN Min({i \in 1..Len(m) : m[i] = ":"}) ELSE 0

\* the "!" marker stands right before the colon that ends the header (no
\* message of the model has a colon in its type or scope)
HasBreakMarker(m) == FirstColon(m) > 1 /\ m[FirstColon(m) - 1] = "!"

\* the level the mapping gives a tag, "absent" for a tag it does not hold
Resolved(tag) == DictGet(tag_to_level, tag, "absent")

----------------------------------------------------------------------------
(* C1 *)

----------------------------------------------------------------------------
(* C2 *)

\* the message is a conventional commit whose parenthesized scope begins with
\* the scope prefix
HasPrefixedScope(m, tags, prefix) ==
    LET plain == ReParserMatch(m, tags, <<>>)
    IN  plain.ok /\ plain.scope # None /\ StartsWith(plain.scope, prefix)

\* C2: with a non-empty scope_prefix, a commit whose message has no
\* parenthesized scope, or one that does not begin with scope_prefix, gets a
\* ParseError, whatever files it changed.
C2_UnscopedRejected ==
    (/\ Parsed
     /\ options.scope_prefix # <<>>
     /\ ~HasPrefixedScope(commit.message, allowed_tags(tag_to_level),
                          options.scope_prefix))
        => result.kind = "ParseError"

----------------------------------------------------------------------------
(* C3 *)

\* scope_prefix occurs in the first line of the message
PrefixInFirstLine ==
    \E i \in 0..Len(commit.message) :
        /\ MatchesAt(commit.message, i, options.scope_prefix)
        /\ NoNL(commit.message, 1, i + Len(options.scope_prefix))

\* C3: a message that does not match the pattern gets a ParseError: with a
\* non-empty scope_prefix that is missing from the first line, "not scoped
\* ... and has no changed files" when no changed file is relevant and "scope
\* does not match scope prefix" otherwise; in every other case "Format
\* Mismatch".
C3_UnparsedReason ==
    (Parsed /\ pmsg_result = NoResult) =>
        /\ result.kind = "ParseError"
        /\ result.error =
               IF options.scope_prefix # <<>> /\ ~PrefixInFirstLine
               THEN (IF relevant_changed_files = <<>> THEN NotScopedNoFiles
                     ELSE ScopeMismatch)
               ELSE FormatMismatch

C3_Witness ==
    /\ Parsed /\ pmsg_result = NoResult
    /\ options.scope_prefix # <<>> /\ ~PrefixInFirstLine
    /\ Contains(commit.message, options.scope_prefix)
    /\ relevant_changed_files # <<>>
    /\ result.kind = "ParseError" /\ result.error = ScopeMismatch

----------------------------------------------------------------------------
(* C4 *)

\* some pattern that a path filter of the given kind expands to matches the
\* absolute path of the file; the filters are taken as a set
MatchesFilterOf(rel_git_path, negated) ==
    \E sp \in Range(options.path_filters) :
        /\ StartsWith(sp, <<"!">>) = negated
        /\ \E pat \in Range(Expand(sp)) : fnmatch(FullPath(rel_git_path), pat)

\* C4: a changed file is recorded as relevant, once, if and only if its
\* absolute path matches a selection pattern and no ignore pattern, in
\* whatever order the filters were listed; without a selection pattern no
\* file is relevant.
C4_RelevantFiles ==
    Parsed =>
        \A f \in Files :
            Count(relevant_changed_files, f) =
                IF /\ f \in Range(commit.files)
                   /\ MatchesFilterOf(f, FALSE)
                   /\ ~MatchesFilterOf(f, TRUE)
                THEN 1 ELSE 0

\* the ignore filter is listed before the selection filter: one changed file
\* is recorded once, another that the selection matches is left out
C4_Witness ==
    /\ Parsed
    /\ Len(options.path_filters) = 2
    /\ StartsWith(options.path_filters[1], <<"!">>)
    /\ \E f, g \in Range(commit.files) :
          /\ Count(relevant_changed_files, f) = 1
          /\ Count(relevant_changed_files, g) = 0
          /\ MatchesFilterOf(g, FALSE) /\ MatchesFilterOf(g, TRUE)

----------------------------------------------------------------------------
(* C5 *)

\* the changed files a result gives access to: those of its commit
ResultFiles(r) == r.commit.files

----------------------------------------------------------------------------
(* C6 *)

\* C6: the bump of a parsed message is MAJOR when a breaking-change paragraph
\* was collected or the "!" marker stands before the colon; otherwise it is
\* the level the mapping gives the matched type, and default_bump_level when
\* the mapping does not hold the type.
C6_Bump ==
    MessageParsed =>
        pmsg_result.bump =
            IF pmsg_result.breaking_descriptions # <<>> \/ HasBreakMarker(commit.message)
            THEN MAJOR
            ELSE IF HasKey(tag_to_level, pmsg_result.type)
            THEN Resolved(pmsg_result.type)
            ELSE options.default_bump_level

\* the marker alone makes a type of a lower level a MAJOR bump
C6_Witness ==
    /\ MessageParsed
    /\ HasBreakMarker(commit.message)
    /\ pmsg_result.breaking_descriptions = <<>>
    /\ Resolved(pmsg_result.type) = PATCH
    /\ pmsg_result.bump = MAJOR

----------------------------------------------------------------------------
(* C7 *)

\* the body of the message: what follows the blank line after the first line
BodyOf(m) ==
    IF MatchesAt(m, Len(FirstLine(m)), <<NL, NL>>)
    THEN Slice(m, Len(FirstLine(m)) + 3, Len(m))
    ELSE <<>>

\* a line of the body reads "BREAKING CHANGE: <text>"
BodyHasBreakingLine(m) ==
    \E i \in LineStarts(BodyOf(m)) :
        MatchesAt(BodyOf(m), i, Breaking \o <<" ">> \o ChangeColon \o <<" ">>)

\* a paragraph of the body begins with "BREAKING CHANGE: <text>": the line
\* is the first of the body or comes after an empty line
BodyHasBreakingParagraph(m) ==
    \E i \in LineStarts(BodyOf(m)) :
        /\ MatchesAt(BodyOf(m), i, Breaking \o <<" ">> \o ChangeColon \o <<" ">>)
        /\ (i = 0 \/ (i >= 2 /\ BodyOf(m)[i - 1] = NL))

----------------------------------------------------------------------------
(* C10 *)

\* the subject of the message: the rest of the first line after the colon and
\* the blanks, without a trailing merge request reference
SubjectOf(m) ==
    LET from == RunEnd(m, FirstColon(m) + 1, IsBlank) + 1
        raw == Slice(m, from, Len(FirstLine(m)))
    IN  IF MrSearch(raw).ok THEN MrSearch(raw).removed ELSE raw

NoDuplicates(s) == \A i, j \in 1..Len(s) : s[i] = s[j] => i = j

\* C10 as stated: descriptions holds no entry twice and its first entry is
\* the subject, whatever the subject and the paragraphs are.
C10_SubjectFirst ==
    MessageParsed =>
        /\ NoDuplicates(pmsg_result.descriptions)
        /\ pmsg_result.descriptions # <<>>
        /\ pmsg_result.descriptions[1] = SubjectOf(commit.message)

\* C10 as amended: descriptions holds no entry twice; its first entry is the
\* subject unless the subject reads as a breaking-change paragraph or as an
\* issue reference, and then the subject is not in descriptions at all.
C10_SubjectFirstUnlessClassified ==
    MessageParsed =>
        /\ NoDuplicates(pmsg_result.descriptions)
        /\ IF \/ BreakingMatch(SubjectOf(commit.message)).ok
              \/ IssueSearch(SubjectOf(commit.message)).ok
           THEN SubjectOf(commit.message) \notin Range(pmsg_result.descriptions)
           ELSE /\ pmsg_result.descriptions # <<>>
                /\ pmsg_result.descriptions[1] = SubjectOf(commit.message)

\* a body that repeats a paragraph: the subject first, the paragraph once
C10_Witness ==
    /\ MessageParsed
    /\ \E i, j \in LineStarts(BodyOf(commit.message)) :
          /\ i < j
          /\ \E par \in Range(pmsg_result.descriptions) :
                /\ MatchesAt(BodyOf(commit.message), i, par)
                /\ MatchesAt(BodyOf(commit.message), j, par)
    /\ Len(pmsg_result.descriptions) = 2
    /\ pmsg_result.descriptions[1] = SubjectOf(commit.message)

----------------------------------------------------------------------------
(* C8 *)

PostInitDone == phase = "post_init"

\* C8: the groups are processed in the order other_allowed_tags, patch_tags,
\* minor_tags and a later group overwrites an earlier one: a tag of
\* minor_tags resolves to MINOR, a tag of patch_tags that is not in
\* minor_tags to PATCH, a tag of other_allowed_tags alone to
\* default_bump_level.  The tags are those the options admit: a tag that
\* holds "|" is left out of the mapping.
C8_LaterGroupWins ==
    PostInitDone =>
        \A t \in {u \in Tags : "|" \notin Range(u)} :
            /\ t \in Range(options.minor_tags) => Resolved(t) = MINOR
            /\ (t \in Range(options.patch_tags) /\ t \notin Range(options.minor_tags))
                   => Resolved(t) = PATCH
            /\ (/\ t \in Range(options.other_allowed_tags)
                /\ t \notin Range(options.patch_tags)
                /\ t \notin Range(options.minor_tags))
                   => Resolved(t) = options.default_bump_level

\* a tag of all three groups, and another of the first two
C8_Witness ==
    /\ PostInitDone
    /\ options.default_bump_level = NO_RELEASE
    /\ \E t, u \in Tags :
          /\ t \in Range(options.other_allowed_tags)
          /\ t \in Range(options.patch_tags)
          /\ t \in Range(options.minor_tags)
          /\ Resolved(t) = MINOR
          /\ u \in Range(options.other_allowed_tags)
          /\ u \in Range(options.patch_tags)
          /\ u \notin Range(options.minor_tags)
          /\ Resolved(u) = PATCH

----------------------------------------------------------------------------
(* C9 *)

\* how significant a level is
Rank(level) ==
    IF level = MAJOR THEN 3
    ELSE IF level = MINOR THEN 2
    ELSE IF level = PATCH THEN 1
    ELSE 0

\* C9, for the default level NO_RELEASE: allowed_tags lists the tags from the
\* most to the least significant bump, every tag that resolves to MINOR
\* before every tag that resolves to PATCH, and these before the other
\* allowed tags, also when a tag is listed in more than one group.
C9_MostSignificantFirst ==
    (PostInitDone /\ options.default_bump_level = NO_RELEASE) =>
        \A i, j \in 1..Len(allowed_tags(tag_to_level)) :
            i < j => Rank(Resolved(allowed_tags(tag_to_level)[i]))
                         >= Rank(Resolved(allowed_tags(tag_to_level)[j]))

----------------------------------------------------------------------------
(* C11 *)

ParserBuilt == phase \in {"ready", "parsed"}

Negated(str_path) == StartsWith(str_path, <<"!">>)

\* the path a filter names, its "!" marker taken off; the root keeps its
\* separator, which str() of the negated root "!/" drops
NamedPath(str_path) ==
    IF Negated(str_path)
    THEN (IF Tail(str_path) = <<>> THEN <<SEP>> ELSE Tail(str_path))
    ELSE str_path

\* the patterns a path expands to: itself when it ends in a wildcard,
\* "<path>/**" when it ends in the separator, both for a bare path
ExpansionOf(path) ==
    IF path[Len(path)] = "*" THEN {path}
    ELSE IF path[Len(path)] = SEP
    THEN {Slice(path, 1, Len(path) - 1) \o <<SEP, "*", "*">>}
    ELSE {path, path \o <<SEP, "*", "*">>}

RECURSIVE SumOver(_, _, _)
\* the number of patterns the filters of one kind expand to, filter by filter
SumOver(path_filters, negated, i) ==
    IF i > Len(path_filters) THEN 0
    ELSE (IF Negated(path_filters[i]) = negated
          THEN Cardinality(ExpansionOf(NamedPath(path_filters[i]))) ELSE 0)
         + SumOver(path_filters, negated, i + 1)

\* a filter list holds the expansions of the filters of its kind, no more
HoldsExpansions(filter_list, negated) ==
    /\ Range(filter_list) =
           UNION {ExpansionOf(NamedPath(sp)) :
                     sp \in {f \in Range(options.path_filters) : Negated(f) = negated}}
    /\ Len(filter_list) = SumOver(options.path_filters, negated, 1)

C11_WitnessRoot ==
    /\ ParserBuilt
    /\ options.path_filters = <<P_root, P_not_root>>
    /\ file_selection_filters = <<<<SEP, "*", "*">>>>
    /\ file_ignore_filters = <<<<SEP, "*", "*">>>>

----------------------------------------------------------------------------
(* C12 *)

\* the configuration is what the construction made of the options
ConfigurationKept ==
    /\ phase # "options" => tag_to_level = PostInitTagToLevel(options)
    /\ ParserBuilt =>
           /\ file_selection_filters = InitSelectionFilters(options.path_filters)
           /\ file_ignore_filters = InitIgnoreFilters(options.path_filters)

\* C12: parse leaves the configuration of the parser as it was built (the
\* filter lists, the mapping, the options the patterns are compiled from),
\* and after any sequence of parse calls a commit that is parsed again gets
\* the result of its first evaluation.
C12_SameResultAgain ==
    /\ ConfigurationKept
    /\ \A i, j \in 1..Len(returned) :
           returned[i].commit = returned[j].commit
               => returned[i].result = returned[j].result

\* a commit without relevant files is parsed, then one with relevant files,
\* then the first again
C12_Witness ==
    /\ Parsed
    /\ Len(returned) = 3
    /\ returned[3].commit = returned[1].commit
    /\ returned[2].commit # returned[1].commit
    /\ returned[1].result.kind = "ParseError"
    /\ returned[2].result.kind = "ParsedCommit"
    /\ returned[3].result = returned[1].result
    /\ result = returned[3].result

====
